---- MODULE Spec2Model ----
(***************************************************************************)
(* Process supervision and debugging sessions of electron-debug-mcp        *)
(* (src/src/index.ts): the process table, startElectronApp and its exit    *)
(* handler, stopElectronApp, updateCDPTargets, connectToCDPTarget,         *)
(* executeCDPCommand and the tool / resource handlers that call them; and  *)
(* the findDuplicates function of the cleanup-duplicates script.           *)
(*                                                                         *)
(* The server is a single-threaded event loop: every action below is one   *)
(* synchronous run of code between two awaits (or one event callback).     *)
(***************************************************************************)
EXTENDS Integers, Sequences, FiniteSets, TLC

(* ------------------------------ bounds --------------------------------- *)
MaxCost == 4        \* requests received: a start call counts 2, any other request 1
MaxTicks == 1       \* clock advances
MaxAppends == 6     \* stdout / stderr chunks appended in LogSpec
MaxItems == 4       \* items given to findDuplicates
MaxDescLen == 2     \* characters of an item's description
MaxRuns == 2        \* findDuplicates runs on the same items

(* -------------------------- program constants -------------------------- *)
MAX_LOG_ENTRIES == 1000
PORT_MIN == 9222
PORT_MAX == 9999
DEFAULT_STARTUP_TIMEOUT == 30000
POLL_INTERVAL == 500
STALE_MS == 5000

(* ------------------------------ inputs --------------------------------- *)
TickSteps == {POLL_INTERVAL}
DebugPortArgs == {0, PORT_MIN}                 \* 0: debugPort omitted
StartupTimeouts == {DEFAULT_STARTUP_TIMEOUT}
ExitCodes == {0, 1, -1}                        \* -1: code null (killed by a signal)
TargetIds == {"t1", "t2"}
TargetLists == {<<"t1">>, <<"t1", "t2">>}
CommandTools == {"electron_evaluate", "electron_pause", "electron_resume", "electron_reload"}
ReadKinds == {"cdp", "process", "logs"}
NoTarget == "none"                             \* targetId omitted

VARIABLES
    now,        \* Date.now()
    ticks,      \* number of clock advances so far
    store,      \* state.electronProcesses: id -> index of the record object
    procs,      \* the ElectronProcess objects ever created, in creation order
    sess,       \* the CDP clients ever opened, in opening order
    starts,     \* the startElectronApp calls, in call order
    tasks,      \* the command and resource requests, in call order
    lastStop,   \* the last stopElectronApp call: its argument, result and number
    appended,   \* LogSpec: the chunks appended so far, in order
    extPorts,   \* the ports held by other programs of the machine
    read,       \* the resource read by URI: the URI, its route, what the handler did
    cleanup     \* the cleanup-duplicates script: the items and its findDuplicates runs

vars ==
    <<now, ticks, store, procs, sess, starts, tasks, lastStop, appended, extPorts, read,
      cleanup>>

(* ------------------------------ helpers -------------------------------- *)
Range(s) == {s[i] : i \in 1..Len(s)}

MakeId(t) == <<"electron", t>>
UnknownId == <<"electron", -1>>

Has(id) == id \in DOMAIN store

MapSet(id, r) == [x \in (DOMAIN store) \cup {id} |-> IF x = id THEN r ELSE store[x]]

(* A delete that removes nothing. *)
MapDeleteNothing(id) == store

MapDelete(id) == [x \in (DOMAIN store) \ {id} |-> store[x]]

(* The requests received so far, a start call counting 2. *)
Cost == 2 * Len(starts) + Len(tasks) + lastStop.n

(* A string is the sequence of its characters; Undefined is no string. *)
Undefined == <<"undefined">>

Route(kind, processId, targetId, commandPath) ==
    [kind |-> kind, processId |-> processId, targetId |-> targetId,
     commandPath |-> commandPath]

NoRoute == Route("none", Undefined, Undefined, Undefined)

(* A metric of the debug info: a number or the string 'unavailable'. *)
Number(v) == [number |-> TRUE, value |-> v]

Unavailable == [number |-> FALSE, value |-> 0]

Metrics(mainCpu, mainMemory, rendererCpu, rendererMemory) ==
    [mainCpuUsage |-> mainCpu, mainMemoryUsage |-> mainMemory,
     rendererCpuUsage |-> rendererCpu, rendererMemoryUsage |-> rendererMemory]

(* The answers to Performance.getMetrics: not asked, failed, or the names  *)
(* of the metrics in the reply.                                            *)
MetricNames == {"CPUUsage", "JSHeapUsedSize"}

MetricsReply(asked, ok, names) == [asked |-> asked, ok |-> ok, names |-> names]

NotAsked == MetricsReply(FALSE, FALSE, {})

MetricsReplies(ok) ==
    IF ok THEN {MetricsReply(TRUE, TRUE, names) : names \in SUBSET MetricNames}
    ELSE {MetricsReply(TRUE, FALSE, {})}

(* ---------------------- the cleanup-duplicates script ------------------ *)
(* Descriptions are strings over a, A and b of at most MaxDescLen          *)
(* characters; a threshold is given in hundredths.                         *)
Thresholds == {50, 100}

Descriptions == UNION {[1..n -> {"a", "A", "b"}] : n \in 0..MaxDescLen}

(* String.prototype.toLowerCase. *)
toLowerCase(str) == [k \in 1..Len(str) |-> IF str[k] = "A" THEN "a" ELSE str[k]]

RECURSIVE matrix(_, _, _, _)
(* levenshteinDistance: the cell matrix[i][j], i counting the characters   *)
(* of str2 and j those of str1.                                            *)
matrix(str1, str2, i, j) ==
    IF j = 0 THEN i
    ELSE IF i = 0 THEN j
    ELSE IF str2[i] = str1[j] THEN matrix(str1, str2, i - 1, j - 1)
    ELSE LET a == matrix(str1, str2, i - 1, j - 1) + 1
             b == matrix(str1, str2, i, j - 1) + 1
             c == matrix(str1, str2, i - 1, j) + 1
         IN  IF a <= b /\ a <= c THEN a ELSE IF b <= c THEN b ELSE c

levenshteinDistance(str1, str2) == matrix(str1, str2, Len(str2), Len(str1))

(* calculateSimilarity: (longer.length - distance) / longer.length, kept   *)
(* as the fraction n / d; 1.0 for two empty strings.                       *)
calculateSimilarity(str1, str2) ==
    LET longer == IF Len(str1) > Len(str2) THEN Len(str1) ELSE Len(str2)
    IN  IF longer = 0
        THEN [n |-> 1, d |-> 1]
        ELSE [n |-> longer - levenshteinDistance(str1, str2), d |-> longer]

(* The comparison turned round: similarity <= threshold. *)
ReachesAtMost(sim, threshold) == sim.n * 100 <= threshold * sim.d

(* similarity >= this.options.threshold, the threshold in hundredths. *)
Reaches(sim, threshold) == sim.n * 100 >= threshold * sim.d

RECURSIVE InnerLoop(_, _, _, _, _)
(* The loop over j of findDuplicates from j on; acc holds group,           *)
(* maxSimilarity and processed.                                            *)
InnerLoop(items, threshold, i, j, acc) ==
    IF j > Len(items) THEN acc
    ELSE IF items[j].id \in acc.processed
    THEN InnerLoop(items, threshold, i, j + 1, acc)
    ELSE LET similarity == calculateSimilarity(toLowerCase(items[i].description),
                                               toLowerCase(items[j].description))
         IN  IF Reaches(similarity, threshold)
             THEN InnerLoop(items, threshold, i, j + 1,
                            [group |-> Append(acc.group, items[j].id),
                             maxSimilarity |->
                                 IF acc.maxSimilarity.n * similarity.d
                                        >= similarity.n * acc.maxSimilarity.d
                                 THEN acc.maxSimilarity ELSE similarity,
                             processed |-> acc.processed \cup {items[j].id}])
             ELSE InnerLoop(items, threshold, i, j + 1, acc)

RECURSIVE OuterLoop(_, _, _, _, _)
(* The loop over i of findDuplicates from i on. *)
OuterLoop(items, threshold, i, duplicates, processed) ==
    IF i > Len(items) THEN duplicates
    ELSE IF items[i].id \in processed
    THEN OuterLoop(items, threshold, i + 1, duplicates, processed)
    ELSE LET acc == InnerLoop(items, threshold, i, i + 1,
                              [group |-> <<items[i].id>>,
                               maxSimilarity |-> [n |-> 0, d |-> 1],
                               processed |-> processed])
         IN  IF Len(acc.group) > 1
             THEN OuterLoop(items, threshold, i + 1,
                            Append(duplicates,
                                   [id |-> items[i].id, description |-> items[i].description,
                                    similarity |-> acc.maxSimilarity, group |-> acc.group]),
                            acc.processed \cup {items[i].id})
             ELSE OuterLoop(items, threshold, i + 1, duplicates, acc.processed)

(* DuplicateCleanup.findDuplicates with options.threshold = threshold. *)
findDuplicates(items, threshold) == OuterLoop(items, threshold, 1, << >>, {})

(* The script has been given no items and has run nothing. *)
NoCleanup == [items |-> << >>, runs |-> << >>]

(* The read keeps the answer its own updateCDPTargets call got: the n-th   *)
(* answer, response.ok, and the list response.json() gave.                 *)
Got(rd, reply) ==
    [rd EXCEPT !.got = [n |-> @.n + 1, ok |-> reply.ok, list |-> reply.list]]

(* No resource has been read by URI. *)
NoRead ==
    [uri |-> [prefix |-> "none", rest |-> << >>], route |-> NoRoute, act |-> "none",
     task |-> 0, reply |-> NotAsked, at |-> 0, out |-> << >>,
     info |-> Metrics(Unavailable, Unavailable, Unavailable, Unavailable),
     got |-> [n |-> 0, ok |-> FALSE, list |-> << >>]]

NoStop == [id |-> UnknownId, ret |-> FALSE, n |-> 0]

Init ==
    /\ now = 0
    /\ ticks = 0
    /\ store = << >>
    /\ procs = << >>
    /\ sess = << >>
    /\ starts = << >>
    /\ tasks = << >>
    /\ lastStop = NoStop
    /\ appended = << >>
    /\ extPorts = {}
    /\ cleanup = NoCleanup
    /\ read = NoRead

(* The clock advances by one of steps. *)
ClockStep(steps) ==
    /\ ticks < MaxTicks
    /\ \E d \in steps : now' = now + d
    /\ ticks' = ticks + 1
    /\ UNCHANGED <<store, procs, sess, starts, tasks, lastStop, appended, extPorts, read, cleanup>>

Tick == ClockStep(TickSteps)

(* --------------------------- the environment --------------------------- *)
(* A spawned process listens on its debugging port once it has bound it.   *)
Listening(p) == {q \in 1..Len(procs) : procs[q].alive /\ procs[q].ready /\ procs[q].debugPort = p}

(* isPortAvailable: a listener bound to 127.0.0.1:p and closed again; any  *)
(* bind error counts as unavailable.                                       *)
isPortAvailable(p) == p \notin extPorts /\ Listening(p) = {}

(* What the discovery request GET /json/list on port p can answer now.     *)
DiscoveryReplies(p) ==
    {[ok |-> FALSE, list |-> << >>]}
        \cup (IF Listening(p) # {} THEN {[ok |-> TRUE, list |-> l] : l \in TargetLists} ELSE {})

(* Whether opening a client on port p can succeed now. *)
OpenReplies(p) == {FALSE} \cup (IF Listening(p) # {} THEN {TRUE} ELSE {})

(* Whether a command sent over client k can be answered now. *)
SendReplies(k) ==
    {FALSE} \cup (IF sess[k].closes = 0 /\ Listening(sess[k].port) # {} THEN {TRUE} ELSE {})

(* ------------------------- the process records ------------------------- *)
NoExit == 2                                    \* exitCode of a process that has not exited

(* The ElectronProcess object startElectronApp builds. targets and         *)
(* lastTargetUpdate are undefined there: lastTargetUpdate = -1 stands for  *)
(* both being undefined (updateCDPTargets always sets them together).      *)
NewRecord(id, port) ==
    [id |-> id, status |-> "running", debugPort |-> port, logs |-> << >>,
     cdpClient |-> 0, targets |-> << >>, lastTargetUpdate |-> -1,
     alive |-> TRUE, ready |-> FALSE, kills |-> 0, exitCode |-> NoExit]

(* addLog with the overflow cut off at the wrong end. *)
addLogDropNewest(logs, log) ==
    LET pushed == Append(logs, log)
    IN  IF Len(pushed) > MAX_LOG_ENTRIES
        THEN SubSeq(pushed, 1, MAX_LOG_ENTRIES)
        ELSE pushed

(* addLog that drops the oldest tenth of the cap on overflow. *)
addLogRotateTenth(logs, log) ==
    LET pushed == Append(logs, log)
        removeCount == MAX_LOG_ENTRIES \div 10
    IN  IF Len(pushed) > MAX_LOG_ENTRIES
        THEN SubSeq(pushed, removeCount + 1, Len(pushed))
        ELSE pushed

(* addLog that never rotates. *)
addLogNoRotation(logs, log) == Append(logs, log)

(* addLog: push, then drop from the front what exceeds MAX_LOG_ENTRIES. *)
addLog(logs, log) ==
    LET pushed == Append(logs, log)
        removeCount == Len(pushed) - MAX_LOG_ENTRIES
    IN  IF Len(pushed) > MAX_LOG_ENTRIES
        THEN SubSeq(pushed, removeCount + 1, Len(pushed))
        ELSE pushed

(* cdpClient.close() on client k. The callers catch what it throws and    *)
(* only log it, so a throwing close leaves the same state as a returning   *)
(* one: closes counts the calls.                                           *)
CloseClient(ss, k) == [ss EXCEPT ![k].closes = @ + 1]

(* The same call with its outcome kept: threw counts the calls that threw. *)
CloseOutcome(ss, k, throws) ==
    [CloseClient(ss, k) EXCEPT ![k].threw = @ + (IF throws THEN 1 ELSE 0)]

(* updateCDPTargets that forgets the cached list when the request fails. *)
updateCDPTargetsClearing(p, reply) ==
    IF reply.ok
    THEN [p EXCEPT !.targets = reply.list, !.lastTargetUpdate = now]
    ELSE [p EXCEPT !.targets = << >>]

(* updateCDPTargets that adds the answered targets to the cached ones. *)
updateCDPTargetsMerging(p, reply) ==
    IF reply.ok
    THEN [p EXCEPT !.targets = @ \o SelectSeq(reply.list, LAMBDA t : t \notin Range(p.targets)),
                   !.lastTargetUpdate = now]
    ELSE p

(* updateCDPTargets on record value p, given the discovery reply. *)
updateCDPTargets(p, reply) ==
    IF reply.ok
    THEN [p EXCEPT !.targets = reply.list, !.lastTargetUpdate = now]
    ELSE p

(* ------------------------- startElectronApp ---------------------------- *)
(* The loop test of the startup polling loop. *)
StillPolling(t0, timeout) == now - t0 < timeout

(* startElectronApp(state, appPath, debugPort, startupTimeout) is called    *)
(* with a port of ports and a timeout of timeouts: the id is taken from    *)
(* the clock, then the call awaits the first probe.                        *)
StartCall(ports, timeouts) ==
    /\ Cost + 2 <= MaxCost
    /\ \E portArg \in ports, timeout \in timeouts :
         starts' = Append(starts,
            [id |-> MakeId(now), explicit |-> portArg # 0,
             port |-> IF portArg = 0 THEN PORT_MIN ELSE portArg,
             timeout |-> timeout, pc |-> "probe", r |-> 0, t0 |-> 0, s0 |-> 0,
             connected |-> FALSE, res |-> "none"])
    /\ UNCHANGED <<now, ticks, store, procs, sess, tasks, lastStop, appended, extPorts, read, cleanup>>

StartBegin == StartCall(DebugPortArgs, StartupTimeouts)

(* A call that has returned keeps its arguments and its result only. *)
Returned(c, res) ==
    [c EXCEPT !.pc = "done", !.res = res, !.port = 0, !.t0 = 0, !.s0 = 0]

(* The polling loop ended by a thrown timeout error. *)
LoopExitThrows(c) == Returned(c, "StartupTimeout")

(* The loop test failed without a successful discovery: a warning is       *)
(* logged and the record returned.                                         *)
LoopExit(c) == Returned(c, "ok")

(* spawn, build the record, register the handlers and the record, enter    *)
(* the polling loop: one synchronous run.                                  *)
Spawn(s, port) ==
    LET r == Len(procs) + 1
        id == starts[s].id
        polling == StillPolling(now, starts[s].timeout)
    IN  /\ procs' = Append(procs, NewRecord(id, port))
        /\ store' = MapSet(id, r)
        /\ starts' = [starts EXCEPT ![s] =
                        IF polling
                        THEN [@ EXCEPT !.port = 0, !.r = r, !.t0 = now, !.pc = "poll"]
                        ELSE LoopExit([@ EXCEPT !.r = r])]

(* A taken explicit port answered by scanning on from it. *)
PortTakenFallsBack(c) ==
    IF c.port = PORT_MAX
    THEN Returned(c, "NoPortAvailable")
    ELSE [c EXCEPT !.explicit = FALSE, !.port = c.port + 1]

(* A scan that goes on two ports further. *)
PortTakenSkips(c) ==
    IF c.explicit
    THEN Returned(c, "PortUnavailable")
    ELSE IF c.port + 2 > PORT_MAX
    THEN Returned(c, "NoPortAvailable")
    ELSE [c EXCEPT !.port = c.port + 2]

(* The probed port of call c is not available: an explicit port fails the  *)
(* call, the scan goes on to the next port or fails after the last one.    *)
PortTaken(c) ==
    IF c.explicit
    THEN Returned(c, "PortUnavailable")
    ELSE IF c.port = PORT_MAX
    THEN Returned(c, "NoPortAvailable")
    ELSE [c EXCEPT !.port = c.port + 1]

(* One isPortAvailable answer and the code that runs on it. *)
StartProbe(s) ==
    /\ starts[s].pc = "probe"
    /\ LET port == starts[s].port
       IN  IF isPortAvailable(port)
           THEN Spawn(s, port)
           ELSE /\ starts' = [starts EXCEPT ![s] = PortTaken(@)]
                /\ UNCHANGED <<store, procs>>
    /\ UNCHANGED <<now, ticks, sess, tasks, lastStop, appended, extPorts, read, cleanup>>

(* One updateCDPTargets answer inside the polling loop. *)
StartPoll(s) ==
    /\ starts[s].pc = "poll"
    /\ LET r == starts[s].r
       IN  \E reply \in DiscoveryReplies(procs[r].debugPort) :
             /\ procs' = [procs EXCEPT ![r] = updateCDPTargets(@, reply)]
             /\ starts' = IF reply.ok
                          THEN [starts EXCEPT ![s] = Returned([@ EXCEPT !.connected = TRUE], "ok")]
                          ELSE [starts EXCEPT ![s].pc = "sleep", ![s].s0 = now]
    /\ UNCHANGED <<now, ticks, store, sess, tasks, lastStop, appended, extPorts, read, cleanup>>

(* The 500 ms timer fires; the loop test runs again. *)
StartSleep(s) ==
    /\ starts[s].pc = "sleep"
    /\ now - starts[s].s0 >= POLL_INTERVAL
    /\ starts' = IF StillPolling(starts[s].t0, starts[s].timeout)
                 THEN [starts EXCEPT ![s].pc = "poll"]
                 ELSE [starts EXCEPT ![s] = LoopExit(@)]
    /\ UNCHANGED <<now, ticks, store, procs, sess, tasks, lastStop, appended, extPorts, read, cleanup>>

(* The spawned process binds its debugging port. *)
ProcBind(r) ==
    /\ procs[r].alive
    /\ ~procs[r].ready
    /\ isPortAvailable(procs[r].debugPort)
    /\ procs' = [procs EXCEPT ![r].ready = TRUE]
    /\ UNCHANGED <<now, ticks, store, sess, starts, tasks, lastStop, appended, extPorts, read, cleanup>>

(* --------------------- exit handler, stopElectronApp ------------------- *)
(* The exit status with a null code taken for a clean exit. *)
ExitStatusNullIsClean(code) == IF code = 1 THEN "crashed" ELSE "stopped"

ExitStatus(code) == IF code = 0 THEN "stopped" ELSE "crashed"

(* A request is in flight on record r: it holds r and has not returned. *)
InFlight(t, r) == t.r = r /\ t.pc # "done"

(* electronProc.on('exit'): the OS process of record r exits with one of   *)
(* codes; closing the record's client throws or not, as faults allows.     *)
ExitHandler(r, codes, faults) ==
    /\ procs[r].alive
    /\ \E code \in codes, throws \in faults :
         LET k == procs[r].cdpClient
             id == procs[r].id
         IN  /\ procs' = [procs EXCEPT ![r].alive = FALSE, ![r].exitCode = code,
                                       ![r].status = ExitStatus(code),
                                       ![r].cdpClient = 0]
             /\ sess' = IF k # 0 THEN CloseOutcome(sess, k, throws) ELSE sess
             /\ store' = MapDelete(id)
             /\ tasks' = [i \in DOMAIN tasks |->
                            IF Has(id) /\ tasks[i].pid = id /\ InFlight(tasks[i], r)
                            THEN [tasks[i] EXCEPT !.raced = TRUE] ELSE tasks[i]]
    /\ UNCHANGED <<now, ticks, starts, lastStop, appended, extPorts, read, cleanup>>

ExitEvent(r, codes) == ExitHandler(r, codes, {FALSE})

ProcExit(r) == ExitEvent(r, ExitCodes)

(* A stop that gives up when closing the client throws. *)
StoppedUnlessThrown(p, throws) ==
    IF throws THEN p
    ELSE [p EXCEPT !.cdpClient = 0, !.kills = @ + 1, !.status = "stopped"]

(* A stop that leaves the closed client in the record. *)
StoppedKeepsHandle(p, throws) == [p EXCEPT !.kills = @ + 1, !.status = "stopped"]

(* The record after stopElectronApp: whatever close did, the handle is     *)
(* cleared, the process signalled and the status set.                      *)
Stopped(p, throws) == [p EXCEPT !.cdpClient = 0, !.kills = @ + 1, !.status = "stopped"]

RequestIds == {procs[r].id : r \in 1..Len(procs)} \cup {UnknownId}

(* stopElectronApp(state, id); closing the record's client throws or not,  *)
(* as faults allows.                                                       *)
StopCall(faults) ==
    /\ Cost < MaxCost
    /\ \E id \in RequestIds, throws \in faults :
         IF ~Has(id)
         THEN /\ lastStop' = [id |-> id, ret |-> FALSE, n |-> lastStop.n + 1]
              /\ UNCHANGED <<store, procs, sess>>
         ELSE LET r == store[id]
                  k == procs[r].cdpClient
              IN  /\ sess' = IF k # 0 THEN CloseOutcome(sess, k, throws) ELSE sess
                  /\ procs' = [procs EXCEPT ![r] = Stopped(@, throws)]
                  /\ store' = MapDelete(id)
                  /\ lastStop' = [id |-> id, ret |-> TRUE, n |-> lastStop.n + 1]
    /\ UNCHANGED <<now, ticks, starts, tasks, appended, extPorts, read, cleanup>>

Stop == StopCall({FALSE})

(* --------------------- requests against a process ---------------------- *)
(* The CDP method a request sends ("{domain}.{command}"). *)
Method(kind) ==
    CASE kind = "electron_evaluate" -> "Runtime.evaluate"
      [] kind = "electron_pause" -> "Debugger.pause"
      [] kind = "electron_resume" -> "Debugger.resume"
      [] kind = "electron_reload" -> "Page.reload"
      [] kind = "cdp" -> "Runtime.enable"
      [] kind = "process" -> "Performance.getMetrics"
      [] OTHER -> "none"

(* electron_reload without a targetId: the loop over process.targets that  *)
(* catches each target's error.                                            *)
IsReloadAll(t) == t.kind = "electron_reload" /\ t.tid = NoTarget

(* A test that already refreshes a list that is exactly 5000 ms old. *)
StaleAtLimit(p) == p.lastTargetUpdate = -1 \/ now - p.lastTargetUpdate >= STALE_MS

(* connectToCDPTarget's test for refreshing the target list first. *)
Stale(p) == p.lastTargetUpdate = -1 \/ now - p.lastTargetUpdate > STALE_MS

NewTask(kind, pid, tid) ==
    [kind |-> kind, pid |-> pid, tid |-> tid, r |-> 0, pc |-> "done", res |-> "none",
     cur |-> NoTarget, todo |-> << >>, k |-> 0, raced |-> FALSE]

(* A request that has returned keeps what it was, whom it addressed and   *)
(* its result only.                                                        *)
Done(t, res) ==
    [t EXCEPT !.pc = "done", !.res = res, !.tid = NoTarget, !.r = 0,
              !.cur = NoTarget, !.todo = << >>, !.k = 0]

RECURSIVE Advance(_, _, _)
RECURSIVE Failed(_, _, _)

(* executeCDPCommand for the targets in queue, one after the other, up to  *)
(* the next await; p is the record as it is now. A set cdpClient is used   *)
(* as it is; otherwise connectToCDPTarget runs up to its first await.      *)
Advance(t, queue, p) ==
    IF queue = << >>
    THEN Done(t, "ok")
    ELSE LET u == [t EXCEPT !.cur = Head(queue), !.todo = Tail(queue)]
         IN  IF p.cdpClient # 0
             THEN [u EXCEPT !.pc = "send", !.k = p.cdpClient]
             ELSE IF p.debugPort = 0
             THEN Failed(u, "NoDebugPort", p)
             ELSE IF Stale(p)
             THEN [u EXCEPT !.pc = "discover"]
             ELSE IF u.cur \in Range(p.targets)
             THEN [u EXCEPT !.pc = "open"]
             ELSE Failed(u, "TargetNotFound", p)

(* A failed send answered by sending the command again. *)
FailedRetrying(u, err, p) ==
    IF u.pc = "send"
    THEN u
    ELSE IF IsReloadAll(u)
    THEN Advance(u, u.todo, p)
    ELSE Done(u, err)

(* A reload loop that gives up at the first error. *)
FailedAborts(u, err, p) == Done(u, err)

(* An error thrown by executeCDPCommand: the reload loop logs it and goes  *)
(* on, every other caller returns it.                                      *)
Failed(u, err, p) ==
    IF IsReloadAll(u)
    THEN Advance(u, u.todo, p)
    ELSE Done(u, err)

(* A lookup that connects although the list does not hold the target. *)
FindTargetAny(u, p) == [u EXCEPT !.pc = "open"]

(* connectToCDPTarget after its updateCDPTargets: the target lookup. *)
FindTarget(u, p) ==
    IF u.cur \in Range(p.targets)
    THEN [u EXCEPT !.pc = "open"]
    ELSE Failed(u, "TargetNotFound", p)

(* The params argument a request passes to executeCDPCommand: evaluate     *)
(* passes {expression, returnByValue}, every other caller the default {}.  *)
Params(kind) == IF kind = "electron_evaluate" THEN "expression" ELSE "empty"

Message(u) == [method |-> Method(u.kind), target |-> u.cur, params |-> Params(u.kind)]

(* A send that goes out twice. *)
IssueSendTwice(ss, u) ==
    IF u.pc = "send"
    THEN [ss EXCEPT ![u.k].sent = Append(Append(@, Message(u)), Message(u))]
    ELSE ss

(* client.send(...) is called by every run that ends waiting for a reply. *)
IssueSend(ss, u) ==
    IF u.pc = "send"
    THEN [ss EXCEPT ![u.k].sent = Append(@, Message(u))]
    ELSE ss

(* The store lookup of the tool handlers and of requireRunningElectronProcess. *)
requireRunningElectronProcess(id) ==
    IF Has(id) /\ procs[store[id]].status = "running" THEN store[id] ELSE 0

(* A logs lookup that still finds the record of an id removed from the store. *)
LogsLookupRemoved(id) ==
    IF Has(id) THEN store[id]
    ELSE IF \E r \in DOMAIN procs : procs[r].id = id
    THEN CHOOSE r \in DOMAIN procs : procs[r].id = id
    ELSE 0

(* The store lookup of the logs resource: only presence is tested. *)
LogsLookup(id) == IF Has(id) THEN store[id] ELSE 0

TargetArgs(kind) ==
    IF kind = "electron_reload" THEN TargetIds \cup {NoTarget}
    ELSE IF kind \in CommandTools \cup {"cdp"} THEN TargetIds
    ELSE {NoTarget}

(* A tool call or resource read of one of kinds arrives: the handler runs   *)
(* to its first await.                                                     *)
Request(kinds) ==
    /\ Cost < MaxCost
    /\ \E kind \in kinds, pid \in RequestIds :
       \E tid \in TargetArgs(kind) :
         LET t == NewTask(kind, pid, tid)
             r == IF kind = "logs" THEN LogsLookup(pid) ELSE requireRunningElectronProcess(pid)
             u == IF kind \notin CommandTools \cup ReadKinds THEN Done(t, "UnknownTool")
                  ELSE IF r = 0 THEN Done(t, "ProcessNotFound")
                  ELSE IF kind = "logs" THEN Done([t EXCEPT !.r = r], "ok")
                  ELSE IF kind = "process" THEN [t EXCEPT !.r = r, !.pc = "infoDiscover"]
                  ELSE IF IsReloadAll(t) THEN Advance([t EXCEPT !.r = r], procs[r].targets, procs[r])
                  ELSE Advance([t EXCEPT !.r = r], <<tid>>, procs[r])
         IN  /\ tasks' = Append(tasks, u)
             /\ sess' = IssueSend(sess, u)
    /\ UNCHANGED <<now, ticks, store, procs, starts, lastStop, appended, extPorts, read, cleanup>>

TaskBegin == Request(CommandTools \cup ReadKinds)

(* What a handler hands to the transport: a result, flagged or not, or a   *)
(* thrown error.                                                           *)
Answer(via, isError, error) == [via |-> via, isError |-> isError, error |-> error]

(* A tool handler that lets the error through. *)
CallToolRethrows(res) ==
    IF res = "ok" THEN Answer("result", FALSE, "none") ELSE Answer("thrown", FALSE, res)

(* The CallTool handler: the whole switch runs inside one try whose catch  *)
(* returns {content: [{error: message}], isError: true}.                   *)
CallToolResult(res) ==
    IF res = "ok" THEN Answer("result", FALSE, "none") ELSE Answer("result", TRUE, res)

(* The ReadResource handler has no catch: its errors are thrown. *)
ReadResourceResult(res) ==
    IF res = "ok" THEN Answer("result", FALSE, "none") ELSE Answer("thrown", FALSE, res)

(* The answer to a request that has returned. *)
Response(t) ==
    IF t.kind \in ReadKinds THEN ReadResourceResult(t.res) ELSE CallToolResult(t.res)

(* electron_start answers with the record or with startElectronApp's error. *)
StartResponse(c) == CallToolResult(c.res)

(* electron_stop answers {success: stopped, processId} for either value of *)
(* stopped.                                                                *)
StopResponse(ret) ==
    [via |-> "result", isError |-> FALSE, error |-> "none", success |-> ret]

(* connectToCDPTarget: the updateCDPTargets it awaited answers. *)
TaskDiscover(i) ==
    /\ tasks[i].pc = "discover"
    /\ LET t == tasks[i]
           r == t.r
       IN  \E reply \in DiscoveryReplies(procs[r].debugPort) :
             LET p == updateCDPTargets(procs[r], reply)
                 u == IF reply.ok THEN FindTarget(t, p) ELSE Failed(t, "DiscoveryFailed", p)
             IN  /\ procs' = [procs EXCEPT ![r] = p]
                 /\ tasks' = [tasks EXCEPT ![i] = u]
                 /\ sess' = IssueSend(sess, u)
    /\ UNCHANGED <<now, ticks, store, starts, lastStop, appended, extPorts, read, cleanup>>

(* connectToCDPTarget: CDP({target, port}) answers; the client is stored   *)
(* in the record and executeCDPCommand sends over it.                      *)
TaskOpen(i) ==
    /\ tasks[i].pc = "open"
    /\ LET t == tasks[i]
           r == t.r
       IN  \E ok \in OpenReplies(procs[r].debugPort) :
             IF ok
             THEN LET k == Len(sess) + 1
                      client == [rec |-> r, target |-> t.cur, port |-> procs[r].debugPort,
                                 closes |-> 0, threw |-> 0, sent |-> << >>]
                      u == [t EXCEPT !.pc = "send", !.k = k]
                  IN  /\ procs' = [procs EXCEPT ![r].cdpClient = k]
                      /\ tasks' = [tasks EXCEPT ![i] = u]
                      /\ sess' = IssueSend(Append(sess, client), u)
             ELSE LET u == Failed(t, "SessionError", procs[r])
                  IN  /\ tasks' = [tasks EXCEPT ![i] = u]
                      /\ sess' = IssueSend(sess, u)
                      /\ UNCHANGED procs
    /\ UNCHANGED <<now, ticks, store, starts, lastStop, appended, extPorts, read, cleanup>>

(* The value the model gives to a metric of a reply. *)
MetricValue(name) == IF name = "CPUUsage" THEN 8 ELSE 64

(* The four metric variables of getElectronDebugInfo after the reply: the  *)
(* renderer's are half the main process's.                                 *)
Measured(reply) ==
    LET cpu == reply.ok /\ "CPUUsage" \in reply.names
        memory == reply.ok /\ "JSHeapUsedSize" \in reply.names
    IN  Metrics(IF cpu THEN Number(MetricValue("CPUUsage")) ELSE Unavailable,
                IF memory THEN Number(MetricValue("JSHeapUsedSize")) ELSE Unavailable,
                IF cpu THEN Number(MetricValue("CPUUsage") \div 2) ELSE Unavailable,
                IF memory THEN Number(MetricValue("JSHeapUsedSize") \div 2) ELSE Unavailable)

(* The returned object: typeof x === 'number' ? x : 0. *)
Reported(m) == [f \in DOMAIN m |-> IF m[f].number THEN m[f] ELSE Number(0)]

(* getElectronDebugInfo returns to the read that called it. *)
InfoAnswer(i, reply) ==
    IF read.task = i
    THEN [read EXCEPT !.act = "info", !.reply = reply, !.info = Reported(Measured(reply))]
    ELSE read

(* client.send answers: the reply or the error goes to the caller. *)
TaskSend(i) ==
    /\ tasks[i].pc = "send"
    /\ LET t == tasks[i]
           r == t.r
       IN  \E ok \in SendReplies(t.k) :
             LET u == IF t.kind = "process" THEN Done(t, "ok")
                      ELSE IF ok THEN Advance(t, t.todo, procs[r])
                      ELSE Failed(t, "SessionError", procs[r])
             IN  /\ tasks' = [tasks EXCEPT ![i] = u]
                 /\ sess' = IssueSend(sess, u)
                 /\ IF t.kind = "process"
                    THEN \E reply \in MetricsReplies(ok) : read' = InfoAnswer(i, reply)
                    ELSE read' = read
    /\ UNCHANGED <<now, ticks, store, procs, starts, lastStop, appended, extPorts, cleanup>>

(* getElectronDebugInfo: its updateCDPTargets answers (an error is only    *)
(* logged); with a client it asks for the metrics.                         *)
TaskInfoDiscover(i) ==
    /\ tasks[i].pc = "infoDiscover"
    /\ LET t == tasks[i]
           r == t.r
       IN  \E reply \in DiscoveryReplies(procs[r].debugPort) :
             LET p == updateCDPTargets(procs[r], reply)
                 u == IF p.cdpClient # 0
                      THEN [t EXCEPT !.pc = "send", !.k = p.cdpClient]
                      ELSE Done(t, "ok")
             IN  /\ procs' = [procs EXCEPT ![r] = p]
                 /\ tasks' = [tasks EXCEPT ![i] = u]
                 /\ sess' = IssueSend(sess, u)
                 /\ read' = IF u.pc = "done" THEN InfoAnswer(i, NotAsked) ELSE read
    /\ UNCHANGED <<now, ticks, store, starts, lastStop, appended, extPorts, cleanup>>

(* -------------------------- resource URIs ------------------------------ *)
(* A URI is one of the prefixes followed by rest, a string over UriChars.  *)
MaxUriLen == 7

UriChars == {"/", "a", "b"}

INFO == "electron://info"
TARGETS == "electron://targets"
CDP == "electron://cdp/"
PROCESS == "electron://process/"
LOGS == "electron://logs/"

Prefixes == {INFO, TARGETS, CDP, PROCESS, LOGS, "electron://"}

Strings == UNION {[1..n -> UriChars] : n \in 0..MaxUriLen}

RECURSIVE Split(_)
RECURSIVE Join(_)

(* str.split('/'): the pieces between the slashes, at least one piece. *)
Split(str) ==
    IF "/" \notin Range(str)
    THEN <<str>>
    ELSE LET i == CHOOSE j \in 1..Len(str) :
                    str[j] = "/" /\ \A m \in 1..(j - 1) : str[m] # "/"
         IN  <<SubSeq(str, 1, i - 1)>> \o Split(SubSeq(str, i + 1, Len(str)))

(* segments.join('/'). *)
Join(segments) ==
    IF segments = << >> THEN << >>
    ELSE IF Len(segments) = 1 THEN segments[1]
    ELSE segments[1] \o <<"/">> \o Join(Tail(segments))

(* A string or undefined taken as a condition. *)
Falsy(x) == x = Undefined \/ x = << >>

parseElectronResourceUri(uri) ==
    IF uri.prefix = INFO /\ uri.rest = << >>
    THEN Route("info", Undefined, Undefined, Undefined)
    ELSE IF uri.prefix = TARGETS /\ uri.rest = << >>
    THEN Route("targets", Undefined, Undefined, Undefined)
    ELSE IF uri.prefix = CDP
    THEN LET segments == Split(uri.rest)
         IN  IF Len(segments) < 2 \/ Falsy(segments[1]) \/ Falsy(segments[2])
             THEN Route("invalidCdp", Undefined, Undefined, Undefined)
             ELSE LET commandSegments == SubSeq(segments, 3, Len(segments))
                      commandPath == IF Len(commandSegments) > 0
                                     THEN Join(commandSegments) ELSE Undefined
                  IN  IF Falsy(commandPath)
                      THEN Route("cdp", segments[1], segments[2], Undefined)
                      ELSE Route("cdp", segments[1], segments[2], commandPath)
    ELSE IF uri.prefix = PROCESS /\ ~Falsy(uri.rest)
    THEN Route("process", uri.rest, Undefined, Undefined)
    ELSE IF uri.prefix = LOGS /\ ~Falsy(uri.rest)
    THEN Route("logs", uri.rest, Undefined, Undefined)
    ELSE Route("unknown", Undefined, Undefined, Undefined)

(* The registered process and its targets as they are spelt in a URI. *)
ProcessIdOf(str) == IF str = <<"a">> THEN MakeId(0) ELSE UnknownId

TargetIdOf(str) ==
    IF str = <<"a">> THEN "t1" ELSE IF str = <<"b">> THEN "t2" ELSE NoTarget

(* The command format test of the cdp route. *)
ValidCommand(commandPath) ==
    LET commandParts == Split(commandPath)
    IN  ~(Len(commandParts) # 2 \/ Falsy(commandParts[1]) \/ Falsy(commandParts[2]))

(* The metadata read's lookup of the target in the record's list. *)
Metadata(p, tid) == IF tid \in Range(p.targets) THEN "metadata" ELSE "TargetNotFound"

(* case 'cdp' of the ReadResource handler up to its first await: without a *)
(* command path the metadata read, with one the format test and            *)
(* executeCDPCommand.                                                      *)
ReadCdp(route) ==
    LET r == requireRunningElectronProcess(ProcessIdOf(route.processId))
        tid == TargetIdOf(route.targetId)
    IN  IF r = 0
        THEN /\ read' = [read EXCEPT !.act = "ProcessNotFound"]
             /\ UNCHANGED <<tasks, sess>>
        ELSE IF Falsy(route.commandPath)
        THEN /\ read' = [read EXCEPT !.act =
                            IF tid \notin Range(procs[r].targets) /\ procs[r].debugPort # 0
                            THEN "refresh" ELSE Metadata(procs[r], tid)]
             /\ UNCHANGED <<tasks, sess>>
        ELSE IF ~ValidCommand(route.commandPath)
        THEN /\ read' = [read EXCEPT !.act = "InvalidCommandFormat"]
             /\ UNCHANGED <<tasks, sess>>
        ELSE LET t == NewTask("cdp", ProcessIdOf(route.processId), tid)
                 u == Advance([t EXCEPT !.r = r], <<tid>>, procs[r])
             IN  /\ read' = [read EXCEPT !.act = "command"]
                 /\ tasks' = Append(tasks, u)
                 /\ sess' = IssueSend(sess, u)

(* The ReadResource handler parses the URI of the request. *)
ReadParse ==
    /\ read.route = NoRoute
    /\ read' = [read EXCEPT !.route = parseElectronResourceUri(read.uri)]
    /\ UNCHANGED <<now, ticks, store, procs, sess, starts, tasks, lastStop, appended,
                   extPorts, cleanup>>

(* case 'process' of the ReadResource handler: getElectronDebugInfo up to  *)
(* its first await; null makes the handler throw.                          *)
ReadProcess(route) ==
    LET pid == ProcessIdOf(route.processId)
        r == requireRunningElectronProcess(pid)
    IN  IF r = 0
        THEN /\ read' = [read EXCEPT !.act = "ProcessNotFound"]
             /\ UNCHANGED <<tasks, sess>>
        ELSE /\ read' = [read EXCEPT !.act = "process", !.task = Len(tasks) + 1]
             /\ tasks' = Append(tasks, [NewTask("process", pid, NoTarget) EXCEPT
                                            !.r = r, !.pc = "infoDiscover"])
             /\ UNCHANGED sess

(* The targets read refreshes record r: it is the value of a store entry, *)
(* running and with a debugging port.                                      *)
Refreshable(r) ==
    /\ Has(procs[r].id) /\ store[procs[r].id] = r
    /\ procs[r].status = "running" /\ procs[r].debugPort # 0

(* The loop over the entries of the store goes on after record r (0: from  *)
(* the start) to the next record it refreshes, in insertion order; 0 when  *)
(* there is none.                                                          *)
NextEntry(r) ==
    LET later == {q \in DOMAIN procs : q > r /\ Refreshable(q)}
    IN  IF later = {} THEN 0 ELSE CHOOSE q \in later : \A x \in later : q <= x

(* The {processId, target} pairs pushed for record value p. *)
Pairs(p) == [n \in 1..Len(p.targets) |-> <<p.id, p.targets[n]>>]

(* The loop goes on to record r or, with r = 0, returns the list. *)
GoOn(rd, r) == [rd EXCEPT !.at = r, !.act = IF r = 0 THEN "list" ELSE "targets"]

(* A targets read that fails with the first refresh that fails. *)
TargetsStepFailing(rd, p, reply) ==
    IF reply.ok
    THEN GoOn([rd EXCEPT !.out = @ \o Pairs(p)], NextEntry(rd.at))
    ELSE [rd EXCEPT !.at = 0, !.act = "DiscoveryFailed"]

(* The targets read after the refresh of record rd.at, now of value p,     *)
(* answered: the targets are pushed or the error is logged, and the loop   *)
(* goes on.                                                                *)
TargetsStep(rd, p, reply) ==
    GoOn(IF reply.ok THEN [rd EXCEPT !.out = @ \o Pairs(p)] ELSE rd, NextEntry(rd.at))

(* The switch of the ReadResource handler on a cdp, process, targets,      *)
(* invalidCdp or unknown route, up to its first await.                     *)
ReadDispatch ==
    /\ read.act = "none"
    /\ read.route.kind \in {"cdp", "process", "targets", "invalidCdp", "unknown"}
    /\ IF read.route.kind = "cdp"
       THEN ReadCdp(read.route)
       ELSE IF read.route.kind = "process"
       THEN ReadProcess(read.route)
       ELSE IF read.route.kind = "targets"
       THEN /\ read' = GoOn(read, NextEntry(0))
            /\ UNCHANGED <<tasks, sess>>
       ELSE /\ read' = [read EXCEPT !.act = IF read.route.kind = "invalidCdp"
                                            THEN "InvalidCdpUri" ELSE "ResourceNotFound"]
            /\ UNCHANGED <<tasks, sess>>
    /\ UNCHANGED <<now, ticks, store, procs, starts, lastStop, appended, extPorts, cleanup>>

(* The metadata read: its updateCDPTargets answers (an error is only       *)
(* logged), then the target is looked up.                                  *)
ReadRefresh ==
    /\ read.act = "refresh"
    /\ LET r == store[ProcessIdOf(read.route.processId)]
       IN  \E reply \in DiscoveryReplies(procs[r].debugPort) :
             LET p == updateCDPTargets(procs[r], reply)
             IN  /\ procs' = [procs EXCEPT ![r] = p]
                 /\ read' = [Got(read, reply) EXCEPT
                                 !.act = Metadata(p, TargetIdOf(read.route.targetId))]
    /\ UNCHANGED <<now, ticks, store, sess, starts, tasks, lastStop, appended, extPorts, cleanup>>

(* The targets read: the updateCDPTargets of the record it is at answers. *)
ReadTargets ==
    /\ read.act = "targets"
    /\ LET r == read.at
       IN  \E reply \in DiscoveryReplies(procs[r].debugPort) :
             LET p == updateCDPTargets(procs[r], reply)
             IN  /\ procs' = [procs EXCEPT ![r] = p]
                 /\ read' = Got(TargetsStep(read, p, reply), reply)
    /\ UNCHANGED <<now, ticks, store, sess, starts, tasks, lastStop, appended, extPorts, cleanup>>

(* ----------------------------- the system ------------------------------ *)
Next ==
    \/ Tick
    \/ StartBegin
    \/ \E s \in DOMAIN starts : StartProbe(s)
    \/ \E s \in DOMAIN starts : StartPoll(s)
    \/ \E s \in DOMAIN starts : StartSleep(s)
    \/ \E r \in DOMAIN procs : ProcBind(r)
    \/ \E r \in DOMAIN procs : ProcExit(r)
    \/ Stop
    \/ TaskBegin
    \/ \E i \in DOMAIN tasks : TaskDiscover(i)
    \/ \E i \in DOMAIN tasks : TaskOpen(i)
    \/ \E i \in DOMAIN tasks : TaskSend(i)
    \/ \E i \in DOMAIN tasks : TaskInfoDiscover(i)

Spec == Init /\ [][Next]_vars

(* ------------------------ port selection alone ------------------------ *)
(* Start calls on a machine where other programs hold no port, the first   *)
(* port of the range, or every port of the range but the last.             *)
ExtPortSets == {{}, {PORT_MIN}, PORT_MIN..(PORT_MAX - 1)}

PortInit ==
    /\ now = 0
    /\ ticks = 0
    /\ store = << >>
    /\ procs = << >>
    /\ sess = << >>
    /\ starts = << >>
    /\ tasks = << >>
    /\ lastStop = NoStop
    /\ appended = << >>
    /\ extPorts \in ExtPortSets
    /\ cleanup = NoCleanup
    /\ read = NoRead

PortNext ==
    \/ StartBegin
    \/ \E s \in DOMAIN starts : StartProbe(s)
    \/ \E r \in DOMAIN procs : ProcBind(r)

PortSpec == PortInit /\ [][PortNext]_vars

(* ------------------------ startup polling alone ------------------------ *)
(* Start calls whose startupTimeout is one polling interval, so that the   *)
(* timeout elapses within the clock's bound, processes that may crash, and *)
(* evaluate calls.                                                         *)
PollTimeouts == {POLL_INTERVAL}

PollNext ==
    \/ Tick
    \/ StartCall({0}, PollTimeouts)
    \/ \E s \in DOMAIN starts : StartProbe(s)
    \/ \E s \in DOMAIN starts : StartPoll(s)
    \/ \E s \in DOMAIN starts : StartSleep(s)
    \/ \E r \in DOMAIN procs : ProcBind(r)
    \/ \E r \in DOMAIN procs : ExitEvent(r, {1})
    \/ Request({"electron_evaluate"})
    \/ \E i \in DOMAIN tasks : TaskDiscover(i)
    \/ \E i \in DOMAIN tasks : TaskOpen(i)
    \/ \E i \in DOMAIN tasks : TaskSend(i)

PollSpec == Init /\ [][PollNext]_vars

(* ----------------------- the startup deadline alone -------------------- *)
(* Start calls with a startupTimeout of one polling interval and a clock   *)
(* that advances by one or by three polling intervals while a discovery    *)
(* request or a timer is pending.                                          *)
DeadlineSteps == {POLL_INTERVAL, 3 * POLL_INTERVAL}

DeadlineNext ==
    \/ ClockStep(DeadlineSteps)
    \/ StartCall({0}, PollTimeouts)
    \/ \E s \in DOMAIN starts : StartProbe(s)
    \/ \E s \in DOMAIN starts : StartPoll(s)
    \/ \E s \in DOMAIN starts : StartSleep(s)
    \/ \E r \in DOMAIN procs : ProcBind(r)

DeadlineSpec == Init /\ [][DeadlineNext]_vars

(* ----------------------- connect and execute alone --------------------- *)
(* One process whose start call has returned at time 0, with the target    *)
(* list the polling fetched or, called with startupTimeout 0, with none;   *)
(* then a clock that jumps by the staleness limit or one millisecond *)
(* more, and evaluate tool calls and cdp command reads.                    *)
StaleSteps == {STALE_MS, STALE_MS + 1}

ConnKinds == {"electron_evaluate", "cdp"}

ConnBase ==
    /\ now = 0
    /\ ticks = 0
    /\ sess = << >>
    /\ tasks = << >>
    /\ lastStop = NoStop
    /\ appended = << >>
    /\ extPorts = {}
    /\ cleanup = NoCleanup
    /\ store = [x \in {MakeId(0)} |-> 1]
    /\ \E reply \in {[ok |-> FALSE, list |-> << >>]}
                        \cup {[ok |-> TRUE, list |-> l] : l \in TargetLists} :
         /\ procs = <<updateCDPTargets([NewRecord(MakeId(0), PORT_MIN) EXCEPT !.ready = TRUE],
                                       reply)>>
         /\ starts = <<[id |-> MakeId(0), explicit |-> FALSE, port |-> 0,
                        timeout |-> IF reply.ok THEN DEFAULT_STARTUP_TIMEOUT ELSE 0,
                        pc |-> "done", r |-> 1, t0 |-> 0, s0 |-> 0,
                        connected |-> reply.ok, res |-> "ok"]>>

ConnInit == ConnBase /\ read = NoRead

ConnNext ==
    \/ ClockStep(StaleSteps)
    \/ Request(ConnKinds)
    \/ \E i \in DOMAIN tasks : TaskDiscover(i)
    \/ \E i \in DOMAIN tasks : TaskOpen(i)
    \/ \E i \in DOMAIN tasks : TaskSend(i)

ConnSpec == ConnInit /\ [][ConnNext]_vars

(* ------------------------ stop against exit alone ---------------------- *)
(* One process whose start call has returned, evaluate calls that open a   *)
(* session on it, stop calls and the exit event in any order, with a       *)
(* client whose close may throw.                                           *)
CloseFaults == {FALSE, TRUE}

RaceNext ==
    \/ Request({"electron_evaluate"})
    \/ \E i \in DOMAIN tasks : TaskDiscover(i)
    \/ \E i \in DOMAIN tasks : TaskOpen(i)
    \/ \E i \in DOMAIN tasks : TaskSend(i)
    \/ StopCall(CloseFaults)
    \/ \E r \in DOMAIN procs : ExitHandler(r, ExitCodes, CloseFaults)

RaceSpec == ConnInit /\ [][RaceNext]_vars

(* --------------------------- tool calls alone -------------------------- *)
(* One process whose start call has returned; then tool calls of every     *)
(* name and of a name the server does not know, start calls for the port   *)
(* the process holds, and stop calls.                                      *)
UnknownTool == "electron_unknown"

ToolNext ==
    \/ Request(CommandTools \cup {UnknownTool})
    \/ \E i \in DOMAIN tasks : TaskDiscover(i)
    \/ \E i \in DOMAIN tasks : TaskOpen(i)
    \/ \E i \in DOMAIN tasks : TaskSend(i)
    \/ StartCall({PORT_MIN}, {0})
    \/ \E s \in DOMAIN starts : StartProbe(s)
    \/ Stop

ToolSpec == ConnInit /\ [][ToolNext]_vars

(* ----------------------------- reload alone --------------------------- *)
(* One process whose start call has returned, a clock that lets its target *)
(* list go stale, and reload calls with and without a targetId.            *)
ReloadNext ==
    \/ ClockStep(StaleSteps)
    \/ Request({"electron_reload"})
    \/ \E i \in DOMAIN tasks : TaskDiscover(i)
    \/ \E i \in DOMAIN tasks : TaskOpen(i)
    \/ \E i \in DOMAIN tasks : TaskSend(i)

ReloadSpec == ConnInit /\ [][ReloadNext]_vars

(* ------------------------ reads by URI alone --------------------------- *)
(* One process whose start call has returned and one resource read, of any *)
(* URI made of a prefix and a bounded string.                              *)
UriInit ==
    /\ ConnBase
    /\ \E prefix \in Prefixes, rest \in Strings :
         read = [NoRead EXCEPT !.uri = [prefix |-> prefix, rest |-> rest]]

UriNext ==
    \/ ReadParse
    \/ ReadDispatch
    \/ ReadRefresh
    \/ ReadTargets
    \/ \E i \in DOMAIN tasks : TaskInfoDiscover(i)
    \/ \E i \in DOMAIN tasks : TaskDiscover(i)
    \/ \E i \in DOMAIN tasks : TaskOpen(i)
    \/ \E i \in DOMAIN tasks : TaskSend(i)

UriSpec == UriInit /\ [][UriNext]_vars

(* ------------------------ the debug info alone ------------------------- *)
(* One process whose start call has returned, evaluate calls that open a   *)
(* session on it, and one read of a process resource.                      *)
ProcessUris == {[prefix |-> PROCESS, rest |-> <<c>>] : c \in UriChars \ {"/"}}

InfoInit == ConnBase /\ \E uri \in ProcessUris : read = [NoRead EXCEPT !.uri = uri]

InfoNext ==
    \/ Request({"electron_evaluate"})
    \/ \E i \in DOMAIN tasks : TaskDiscover(i)
    \/ \E i \in DOMAIN tasks : TaskOpen(i)
    \/ \E i \in DOMAIN tasks : TaskSend(i)
    \/ ReadParse
    \/ ReadDispatch
    \/ \E i \in DOMAIN tasks : TaskInfoDiscover(i)

InfoSpec == InfoInit /\ [][InfoNext]_vars

(* ----------------------- the targets read alone ------------------------ *)
(* Two processes whose start calls have returned, the second started one   *)
(* polling interval after the first, one read of the targets resource, and *)
(* processes that exit meanwhile.                                          *)
Started(id, port, r, list) ==
    [id |-> id, explicit |-> FALSE, port |-> 0, timeout |-> DEFAULT_STARTUP_TIMEOUT,
     pc |-> "done", r |-> r, t0 |-> 0, s0 |-> 0, connected |-> TRUE, res |-> "ok"]

TargetsInit ==
    /\ now = POLL_INTERVAL
    /\ ticks = 1
    /\ sess = << >>
    /\ tasks = << >>
    /\ lastStop = NoStop
    /\ appended = << >>
    /\ extPorts = {}
    /\ cleanup = NoCleanup
    /\ read = [NoRead EXCEPT !.uri = [prefix |-> TARGETS, rest |-> << >>]]
    /\ store = [x \in {MakeId(0), MakeId(POLL_INTERVAL)} |-> IF x = MakeId(0) THEN 1 ELSE 2]
    /\ \E l1 \in TargetLists, l2 \in TargetLists :
         /\ procs = <<[NewRecord(MakeId(0), PORT_MIN) EXCEPT
                          !.ready = TRUE, !.targets = l1, !.lastTargetUpdate = 0],
                      [NewRecord(MakeId(POLL_INTERVAL), PORT_MIN + 1) EXCEPT
                          !.ready = TRUE, !.targets = l2, !.lastTargetUpdate = POLL_INTERVAL]>>
         /\ starts = <<Started(MakeId(0), PORT_MIN, 1, l1),
                       Started(MakeId(POLL_INTERVAL), PORT_MIN + 1, 2, l2)>>

TargetsNext ==
    \/ ReadParse
    \/ ReadDispatch
    \/ ReadTargets
    \/ \E r \in DOMAIN procs : ProcExit(r)

TargetsSpec == TargetsInit /\ [][TargetsNext]_vars

(* ------------------------- the log buffer alone ------------------------ *)
(* stdout and stderr chunks touch nothing but the record's logs, so they   *)
(* are explored on their own: one spawned process whose buffer is empty or *)
(* two short of the cap, then stdout and stderr chunks in any order.       *)
LogPrefill == MAX_LOG_ENTRIES - 2

Chunk(stream, n) == [stream |-> stream, n |-> n]

Prefilled(n) == [i \in 1..n |-> Chunk("stdout", i)]

(* The chunks appended since the initial state. *)
Fresh == Len(appended) - (IF Len(appended) >= LogPrefill THEN LogPrefill ELSE 0)

LogInit ==
    /\ now = 0
    /\ ticks = 0
    /\ sess = << >>
    /\ tasks = << >>
    /\ lastStop = NoStop
    /\ extPorts = {}
    /\ cleanup = NoCleanup
    /\ read = NoRead
    /\ starts = <<[id |-> MakeId(0), explicit |-> FALSE, port |-> 0,
                   timeout |-> DEFAULT_STARTUP_TIMEOUT, pc |-> "poll", r |-> 1,
                   t0 |-> 0, s0 |-> 0, connected |-> FALSE, res |-> "none"]>>
    /\ store = [x \in {MakeId(0)} |-> 1]
    /\ \E n \in {0, LogPrefill} :
         /\ appended = Prefilled(n)
         /\ procs = <<[NewRecord(MakeId(0), PORT_MIN) EXCEPT !.logs = Prefilled(n)]>>

(* electronProc.stdout.on('data') / stderr.on('data'): addLog(chunk). *)
Data(r, stream) ==
    /\ Fresh < MaxAppends
    /\ LET log == Chunk(stream, Len(appended) + 1)
       IN  /\ procs' = [procs EXCEPT ![r].logs = addLog(@, log)]
           /\ appended' = Append(appended, log)
    /\ UNCHANGED <<now, ticks, store, sess, starts, tasks, lastStop, extPorts, read, cleanup>>

StdoutData(r) == Data(r, "stdout")

StderrData(r) == Data(r, "stderr")

LogNext ==
    \/ \E r \in DOMAIN procs : StdoutData(r)
    \/ \E r \in DOMAIN procs : StderrData(r)

LogSpec == LogInit /\ [][LogNext]_vars

(* --------------------- the cleanup-duplicates script alone ------------- *)
(* The script is given up to MaxItems items. Their ids are taken up to     *)
(* renaming: the first item has id 1 and every other item an id already    *)
(* used or the next unused one.                                            *)
DedupInit ==
    /\ now = 0
    /\ ticks = 0
    /\ store = << >>
    /\ procs = << >>
    /\ sess = << >>
    /\ starts = << >>
    /\ tasks = << >>
    /\ lastStop = NoStop
    /\ appended = << >>
    /\ extPorts = {}
    /\ read = NoRead
    /\ \E n \in 0..MaxItems :
         \E ids \in [1..n -> 1..n], descs \in [1..n -> Descriptions] :
            /\ \A k \in 1..n :
                  \/ ids[k] = 1
                  \/ \E h \in 1..(k - 1) : ids[h] = ids[k] \/ ids[h] = ids[k] - 1
            /\ cleanup = [NoCleanup EXCEPT
                             !.items = [k \in 1..n |-> [id |-> ids[k],
                                                        description |-> descs[k]]]]

(* new DuplicateCleanup({threshold}).findDuplicates(items). *)
FindDuplicatesRun ==
    /\ Len(cleanup.runs) < MaxRuns
    /\ \E threshold \in Thresholds :
         cleanup' = [cleanup EXCEPT !.runs = Append(@, [threshold |-> threshold,
                                                         duplicates |-> findDuplicates(cleanup.items, threshold)])]
    /\ UNCHANGED <<now, ticks, store, procs, sess, starts, tasks, lastStop, appended,
                   extPorts, read>>

DedupSpec == DedupInit /\ [][FindDuplicatesRun]_vars

(* ------------------------------ the claims ----------------------------- *)
Last(q) == q[Len(q)]

(* The clients opened for record r and not closed. *)
LiveClients(r) == {k \in DOMAIN sess : sess[k].rec = r /\ sess[k].closes = 0}

(* No request or start call that holds record r is still running. *)
Quiet(r) ==
    /\ \A i \in DOMAIN tasks : ~InFlight(tasks[i], r)
    /\ \A s \in DOMAIN starts : starts[s].r = r => starts[s].pc = "done"

(* C1: after any sequence of stdout / stderr appends the log buffer holds  *)
(* at most MAX_LOG_ENTRIES entries and ends with the chunk appended last.  *)
C1_LogBounded ==
    \A r \in DOMAIN procs :
        /\ Len(procs[r].logs) <= MAX_LOG_ENTRIES
        /\ appended # << >> =>
             /\ procs[r].logs # << >>
             /\ Last(procs[r].logs) = Last(appended)

(* C1 witness: more chunks than the cap were appended, both streams among  *)
(* the new ones, and the buffer is full.                                   *)
C1_Overflowed ==
    /\ Len(appended) > MAX_LOG_ENTRIES + 1
    /\ Last(appended).stream = "stderr"
    /\ appended[Len(appended) - 1].stream = "stdout"
    /\ \E r \in DOMAIN procs : Len(procs[r].logs) = MAX_LOG_ENTRIES

(* C2: a status that is stopped or crashed never changes again. *)
C2_StatusTerminal ==
    [][\A r \in DOMAIN procs :
          procs[r].status # "running" => procs'[r].status = procs[r].status]_vars

(* C3: any two records ever registered have different identifiers. *)
C3_IdsUnique ==
    \A r1, r2 \in DOMAIN procs : r1 # r2 => procs[r1].id # procs[r2].id

(* C4: a record whose session handle is set has status running. *)
C4_SessionImpliesRunning ==
    \A r \in DOMAIN procs : procs[r].cdpClient # 0 => procs[r].status = "running"

(* C5: at most one opened and not yet closed session exists per record. *)
C5_OneLiveSession ==
    \A r \in DOMAIN procs : Cardinality(LiveClients(r)) <= 1

(* C6: once a record is stopped or its process has exited and nothing is   *)
(* in flight on it any more, no session opened for it is still open.       *)
C6_NoSessionLeftOpen ==
    \A r \in DOMAIN procs :
        procs[r].status # "running" /\ Quiet(r) => LiveClients(r) = {}

(* C7: a reload, evaluate, pause, resume, process-info, logs or cdp        *)
(* request addressed to an id with no record in the store fails at once    *)
(* with the process-not-found error, sends nothing and changes no record.  *)
C7_AbsentIdFails ==
    [][Len(tasks') = Len(tasks) + 1 /\ ~Has(Last(tasks').pid) =>
          /\ Last(tasks').pc = "done"
          /\ Last(tasks').res = "ProcessNotFound"
          /\ UNCHANGED <<store, procs, sess>>]_vars

(* C7 witness: a logs read and a tool call, both addressed to the id of a  *)
(* record that was registered and is gone from the store, have failed.     *)
C7_RemovedIdFailed ==
    \E i, j \in DOMAIN tasks :
        /\ tasks[i].kind = "logs" /\ tasks[j].kind \in CommandTools
        /\ tasks[i].pid = tasks[j].pid
        /\ tasks[i].res = "ProcessNotFound" /\ tasks[j].res = "ProcessNotFound"
        /\ ~Has(tasks[i].pid)
        /\ \E r \in DOMAIN procs : procs[r].id = tasks[i].pid

(* C8: stop on an id with no record returns false, sends no signal and     *)
(* changes nothing; stop on an id with a record returns true and leaves    *)
(* the id without a record, so that a second stop returns false.           *)
C8_StopAbsentIsNoop ==
    [][lastStop'.n = lastStop.n + 1 =>
          IF Has(lastStop'.id)
          THEN lastStop'.ret /\ lastStop'.id \notin DOMAIN store'
          ELSE ~lastStop'.ret /\ UNCHANGED <<store, procs, sess, starts, tasks>>]_vars

(* C8 witness: two stop calls on the id of a registered record; the first  *)
(* sent the signal, the second returned false.                             *)
C8_StoppedTwice ==
    /\ lastStop.n = 2
    /\ ~lastStop.ret
    /\ \E r \in DOMAIN procs :
         procs[r].id = lastStop.id /\ procs[r].kills = 1 /\ procs[r].status = "stopped"

(* C9: the exit handler sets the status to stopped for exit code 0 and to  *)
(* crashed for any other code or a signal, closes the record's client if   *)
(* it has one, clears the handle and removes the id from the store.        *)
C9_ExitHandler ==
    [][\A r \in DOMAIN procs :
          procs[r].alive /\ ~procs'[r].alive =>
            /\ procs'[r].status = (IF procs'[r].exitCode = 0 THEN "stopped" ELSE "crashed")
            /\ procs'[r].cdpClient = 0
            /\ procs[r].cdpClient # 0 =>
                 sess'[procs[r].cdpClient].closes = sess[procs[r].cdpClient].closes + 1
            /\ procs[r].id \notin DOMAIN store']_vars

(* C9 witness: a process killed by a signal while its record held a        *)
(* client: crashed, the client closed by the exit handler, the id gone.    *)
C9_ExitedWithClient ==
    \E r \in DOMAIN procs :
        /\ ~procs[r].alive /\ procs[r].exitCode = -1 /\ procs[r].kills = 0
        /\ procs[r].status = "crashed"
        /\ \E k \in DOMAIN sess : sess[k].rec = r /\ sess[k].closes = 1
        /\ ~Has(procs[r].id)

(* C10: a command that was in flight when the exit handler removed its     *)
(* record ends with the process-not-found error.                           *)
C10_RacedCommandNotFound ==
    \A i \in DOMAIN tasks :
        tasks[i].pc = "done" /\ tasks[i].raced /\ tasks[i].kind \in CommandTools \cup {"cdp"}
            => tasks[i].res = "ProcessNotFound"

(* A start call returns in this step. *)
Returns(s) ==
    /\ s \in DOMAIN starts'
    /\ starts'[s].pc = "done"
    /\ s \in DOMAIN starts => starts[s].pc # "done"

(* C11: start is all-or-nothing. When a start call returns a record, the   *)
(* record is in the store under its id with status running; when it fails  *)
(* it has created no record, so none of its making is in the store.        *)
C11_StartAllOrNothing ==
    [][\A s \in DOMAIN starts' :
          Returns(s) =>
            IF starts'[s].res = "ok"
            THEN /\ starts'[s].id \in DOMAIN store'
                 /\ store'[starts'[s].id] = starts'[s].r
                 /\ procs'[starts'[s].r].status = "running"
            ELSE /\ starts'[s].r = 0
                 /\ procs' = procs
                 /\ store' = store]_vars

(* C12: a start call with an explicit port that the probe reports taken    *)
(* fails with the port-unavailable error in that step; it spawns nothing,  *)
(* registers nothing and never goes on to another port.                    *)
C12_ExplicitPortFails ==
    [][\A s \in DOMAIN starts :
          /\ starts[s].pc = "probe" /\ starts[s].explicit
               /\ ~isPortAvailable(starts[s].port) /\ starts'[s] # starts[s]
             => /\ starts'[s].pc = "done"
                /\ starts'[s].res = "PortUnavailable"
                /\ starts'[s].r = 0
                /\ procs' = procs
                /\ store' = store
          /\ starts'[s].explicit = starts[s].explicit
          /\ starts'[s].explicit /\ starts'[s].r # 0
             => procs'[starts'[s].r].debugPort \in DebugPortArgs \ {0}]_vars

(* C12 witness: an explicit port held by another program was asked for;    *)
(* the call failed and no record exists.                                   *)
C12_ExplicitPortRefused ==
    /\ PORT_MIN \in extPorts
    /\ \E s \in DOMAIN starts : starts[s].explicit /\ starts[s].res = "PortUnavailable"
    /\ procs = << >>
    /\ store = << >>

(* C13: a start call without a port probes the range upwards from 9222:    *)
(* every port below the one it probes or uses was reported taken, the port *)
(* it spawns on was reported available, and it fails with the no-port      *)
(* error only after the whole range was reported taken, spawning and       *)
(* registering nothing. (No process exits here: a taken port stays taken.) *)
C13_LowestAvailablePort ==
    [][\A s \in DOMAIN starts' :
          ~starts'[s].explicit =>
            /\ starts'[s].pc = "probe" =>
                 /\ starts'[s].port \in PORT_MIN..PORT_MAX
                 /\ \A q \in PORT_MIN..(starts'[s].port - 1) : ~isPortAvailable(q)
            /\ starts'[s].r # 0 /\ (s \in DOMAIN starts => starts[s].r = 0) =>
                 /\ procs'[starts'[s].r].debugPort = starts[s].port
                 /\ isPortAvailable(starts[s].port)
                 /\ \A q \in PORT_MIN..(starts[s].port - 1) : ~isPortAvailable(q)
            /\ Returns(s) /\ starts'[s].res # "ok" =>
                 /\ starts'[s].res = "NoPortAvailable"
                 /\ \A q \in PORT_MIN..PORT_MAX : ~isPortAvailable(q)
                 /\ starts'[s].r = 0
                 /\ procs' = procs
                 /\ store' = store]_vars

(* C13 witness: with every port but the last held by other programs, one   *)
(* scan spawned on port 9999 and the next one found no port at all.        *)
C13_LastPortThenNone ==
    \E s1, s2 \in DOMAIN starts :
        /\ ~starts[s1].explicit /\ starts[s1].r # 0
        /\ procs[starts[s1].r].debugPort = PORT_MAX
        /\ ~starts[s2].explicit /\ starts[s2].res = "NoPortAvailable"
        /\ Len(procs) = 1

(* C14: a record is registered in the step that spawns its process, before *)
(* any discovery attempt, and while its start call is polling (and the     *)
(* process has neither exited nor been stopped) a lookup of its id finds   *)
(* it, with status running.                                                *)
C14_VisibleWhilePolling ==
    [][\A s \in DOMAIN starts' :
          LET r == starts'[s].r
              id == starts'[s].id
          IN  /\ r # 0 /\ (s \in DOMAIN starts => starts[s].r = 0) =>
                   /\ id \in DOMAIN store' /\ store'[id] = r
                   /\ procs'[r].status = "running"
                   /\ procs'[r].lastTargetUpdate = -1
              /\ starts'[s].pc \in {"poll", "sleep"}
                       /\ procs'[r].alive /\ procs'[r].kills = 0 =>
                   /\ id \in DOMAIN store' /\ store'[id] = r
                   /\ procs'[r].status = "running"]_vars

(* C15: when the startup timeout has elapsed without a successful          *)
(* discovery, the start call returns its record without an error, and the  *)
(* return changes no record, no session and not the store: a record that   *)
(* was running and registered stays so.                                    *)
C15_TimeoutReturnsRecord ==
    [][\A s \in DOMAIN starts :
          starts[s].pc = "sleep" /\ Returns(s) =>
            /\ now - starts[s].t0 >= starts[s].timeout
            /\ starts'[s].res = "ok"
            /\ ~starts'[s].connected
            /\ starts'[s].r = starts[s].r
            /\ UNCHANGED <<procs, store, sess>>]_vars

(* C15 witness: a start call returned after its timeout without ever       *)
(* reaching the debugging port; its process is alive, its record running   *)
(* and registered, and a later evaluate discovered its targets and opened  *)
(* a session on it.                                                        *)
C15_ConnectedAfterTimeout ==
    \E s \in DOMAIN starts :
        /\ starts[s].pc = "done" /\ starts[s].res = "ok" /\ ~starts[s].connected
        /\ LET r == starts[s].r
           IN  /\ procs[r].alive /\ procs[r].status = "running"
               /\ Has(procs[r].id) /\ store[procs[r].id] = r
               /\ procs[r].lastTargetUpdate >= starts[s].timeout
               /\ procs[r].cdpClient # 0

(* The cached target list and its timestamp of record r are as before. *)
CacheKept(r) ==
    /\ procs'[r].targets = procs[r].targets
    /\ procs'[r].lastTargetUpdate = procs[r].lastTargetUpdate

(* C16: a failed refresh leaves the cached target list and its timestamp   *)
(* as they were: the failing discovery of a connect changes neither, and   *)
(* the two change only together, to a list the debugging port answered and *)
(* to the time of that answer.                                             *)
C16_FailedRefreshKeepsCache ==
    [][/\ \A i \in DOMAIN tasks :
            tasks[i].pc = "discover" /\ tasks'[i].res = "DiscoveryFailed"
                => CacheKept(tasks[i].r)
       /\ \A r \in DOMAIN procs :
            ~CacheKept(r) =>
                /\ procs'[r].targets \in TargetLists
                /\ procs'[r].lastTargetUpdate = now]_vars

(* C16 witness: a connect found the cache stale, its refresh failed, and   *)
(* the record still holds the list and the timestamp of the first refresh. *)
C16_StaleCacheSurvived ==
    \E i \in DOMAIN tasks, r \in DOMAIN procs :
        /\ tasks[i].res = "DiscoveryFailed" /\ tasks[i].pid = procs[r].id
        /\ procs[r].targets # << >>
        /\ procs[r].lastTargetUpdate = 0
        /\ now > STALE_MS
        /\ Len(procs) = 1 /\ Len(tasks) = 1

(* C17: when connect finds a cached list older than 5000 ms and the        *)
(* refresh it triggers fails, the call does not fail for that reason: it   *)
(* goes on with the stale list.                                            *)
C17_StaleCacheUsed ==
    [][\A i \in DOMAIN tasks :
          /\ tasks[i].pc = "discover"
          /\ procs[tasks[i].r].lastTargetUpdate >= 0
          /\ now - procs[tasks[i].r].lastTargetUpdate > STALE_MS
          => tasks'[i].res # "DiscoveryFailed"]_vars

(* The requests that call executeCDPCommand for one given target. *)
SingleTarget(t) == t.kind \in (CommandTools \ {"electron_reload"}) \cup {"cdp"}

(* The record request i of tasks' works on: looked up if the request is    *)
(* new, held since its arrival otherwise.                                  *)
Subject(i) ==
    IF i \in DOMAIN tasks THEN tasks[i].r ELSE requireRunningElectronProcess(tasks'[i].pid)

(* Request i runs in this step. *)
Runs(i) == i \notin DOMAIN tasks \/ tasks'[i] # tasks[i]

(* C18: connect fails with the target-not-found error whenever the target  *)
(* is not in the cached list, be the list fresh or just refreshed, and     *)
(* with the no-debug-port error for a record without a port; either way no *)
(* session is opened and the record's handle stays as it was.              *)
C18_ConnectRefusals ==
    [][/\ \A i \in DOMAIN tasks' :
            SingleTarget(tasks'[i]) =>
              LET r == Subject(i)
              IN  /\ i \notin DOMAIN tasks /\ r # 0
                        /\ procs[r].cdpClient = 0 /\ ~Stale(procs[r]) =>
                       /\ tasks'[i].pc \in {"open", "done"}
                       /\ tasks'[i].pc = "open" =>
                            tasks'[i].cur \in Range(procs[r].targets)
                       /\ tasks'[i].pc = "done" =>
                            /\ tasks'[i].res = "TargetNotFound"
                            /\ UNCHANGED <<procs, sess, store>>
                  /\ i \in DOMAIN tasks /\ tasks[i].pc = "discover" /\ Runs(i)
                        /\ tasks'[i].res # "DiscoveryFailed" =>
                       IF tasks[i].cur \in Range(procs'[r].targets)
                       THEN tasks'[i].pc = "open"
                       ELSE /\ tasks'[i].pc = "done"
                            /\ tasks'[i].res = "TargetNotFound"
                            /\ procs'[r].cdpClient = procs[r].cdpClient
                            /\ UNCHANGED <<sess, store>>
       /\ \A r \in DOMAIN procs, tid \in TargetIds :
            LET p == [procs[r] EXCEPT !.debugPort = 0, !.cdpClient = 0]
                t == [NewTask("electron_evaluate", p.id, tid) EXCEPT !.r = r]
                u == Advance(t, <<tid>>, p)
            IN  u.pc = "done" /\ u.res = "NoDebugPort" /\ IssueSend(sess, u) = sess]_vars

(* C18 witness: the start call returned without a target list, so the     *)
(* list was fetched by the connect of the only request; it holds one       *)
(* target, the request was for another one and failed with                 *)
(* target-not-found, and no session was ever opened.                       *)
C18_TargetMissingAfterRefresh ==
    \E r \in DOMAIN procs, s \in DOMAIN starts :
        /\ Len(tasks) = 1
        /\ tasks[1].res = "TargetNotFound" /\ tasks[1].pid = procs[r].id
        /\ starts[s].r = r /\ ~starts[s].connected
        /\ procs[r].targets = <<"t1">>
        /\ procs[r].lastTargetUpdate >= 0
        /\ procs[r].cdpClient = 0
        /\ sess = << >>

(* C19: execute sends over the record's session when the handle is set    *)
(* and over the session connect has just opened and stored otherwise; it   *)
(* sends one message, domain.method with the caller's params to the        *)
(* caller's target, and ends with the reply or the error of that send.     *)
C19_ExecuteSendsOnce ==
    [][\A i \in DOMAIN tasks' :
          SingleTarget(tasks'[i]) =>
            LET new == i \notin DOMAIN tasks
                r == Subject(i)
                k == tasks'[i].k
                entered == tasks'[i].pc = "send" /\ (new \/ tasks[i].pc # "send")
            IN  /\ new /\ r # 0 /\ procs[r].cdpClient # 0 =>
                     /\ tasks'[i].pc = "send"
                     /\ k = procs[r].cdpClient
                     /\ Len(sess') = Len(sess)
                /\ entered /\ new => procs[r].cdpClient # 0
                /\ entered /\ ~new =>
                     /\ tasks[i].pc = "open"
                     /\ k = Len(sess) + 1 /\ Len(sess') = k
                     /\ procs'[r].cdpClient = k
                /\ entered =>
                     /\ tasks'[i].cur = tasks'[i].tid
                     /\ sess'[k].sent =
                          Append(IF k \in DOMAIN sess THEN sess[k].sent ELSE << >>,
                                 [method |-> Method(tasks'[i].kind),
                                  target |-> tasks'[i].tid,
                                  params |-> Params(tasks'[i].kind)])
                     /\ \A j \in DOMAIN sess \ {k} : sess'[j] = sess[j]
                /\ ~new /\ tasks[i].pc = "send" /\ Runs(i) =>
                     /\ tasks'[i].pc = "done"
                     /\ tasks'[i].res \in {"ok", "SessionError"}
                     /\ sess' = sess
                /\ ~entered /\ Runs(i) =>
                     \A j \in DOMAIN sess : sess'[j].sent = sess[j].sent]_vars

(* C19 witness: an evaluate and a cdp command both answered over one and   *)
(* the same session, opened by the first and reused by the second.         *)
C19_SessionReused ==
    /\ Len(sess) = 1
    /\ Len(sess[1].sent) = 2
    /\ sess[1].sent[1].method # sess[1].sent[2].method
    /\ Len(tasks) = 2
    /\ \A i \in DOMAIN tasks : tasks[i].res = "ok"

(* The messages sent so far, over all sessions. *)
TotalSent == Cardinality({<<k, n>> \in (DOMAIN sess) \X (1..MaxCost + 1) : n <= Len(sess[k].sent)})

(* C20: a send that fails with a session error ends the call with that     *)
(* error and changes neither the records (handle, status, target cache)    *)
(* nor the store nor any session: nothing is closed, nothing sent again,   *)
(* so no more messages were sent than requests were made.                  *)
C20_SendErrorChangesNothing ==
    [][/\ \A i \in DOMAIN tasks :
            SingleTarget(tasks[i]) /\ tasks[i].pc = "send" /\ Runs(i) /\ tasks'[i].res # "ok" =>
                /\ tasks'[i].pc = "done"
                /\ tasks'[i].res = "SessionError"
                /\ UNCHANGED <<procs, store, sess>>
       /\ TotalSent' <= Len(tasks')]_vars

(* C20 witness: the only request opened a session, its send failed, and    *)
(* the record still holds that session, open, with one message sent once.  *)
C20_SessionKeptAfterError ==
    /\ Len(tasks) = 1 /\ tasks[1].res = "SessionError"
    /\ Len(sess) = 1 /\ sess[1].closes = 0 /\ Len(sess[1].sent) = 1
    /\ \E r \in DOMAIN procs :
         /\ procs[r].cdpClient = 1 /\ procs[r].status = "running"
         /\ Has(procs[r].id) /\ store[procs[r].id] = r

(* C21: a close that throws changes nothing else. A stop on a registered   *)
(* id clears the handle, signals the process, sets the status to stopped,  *)
(* removes the id and returns true; the exit handler sets the status,      *)
(* clears the handle and removes the id.                                   *)
C21_CloseErrorSwallowed ==
    [][/\ lastStop'.n = lastStop.n + 1 /\ Has(lastStop'.id) =>
            LET r == store[lastStop'.id]
            IN  /\ procs'[r].cdpClient = 0
                /\ procs'[r].kills = procs[r].kills + 1
                /\ procs'[r].status = "stopped"
                /\ lastStop'.id \notin DOMAIN store'
                /\ lastStop'.ret
       /\ \A r \in DOMAIN procs :
            procs[r].alive /\ ~procs'[r].alive =>
                /\ procs'[r].status = ExitStatus(procs'[r].exitCode)
                /\ procs'[r].cdpClient = 0
                /\ procs[r].id \notin DOMAIN store']_vars

(* C21 witness: the close of a stop threw; the record is stopped, its      *)
(* handle cleared, its process signalled, its id removed, and the stop     *)
(* returned true.                                                          *)
C21_StopAfterThrowingClose ==
    /\ lastStop.n = 1 /\ lastStop.ret
    /\ \E k \in DOMAIN sess : sess[k].threw = 1 /\ sess[k].closes = 1
    /\ \E r \in DOMAIN procs :
         /\ procs[r].id = lastStop.id /\ procs[r].alive
         /\ procs[r].kills = 1 /\ procs[r].status = "stopped" /\ procs[r].cdpClient = 0
    /\ ~Has(lastStop.id)

(* The error messages of the tool handlers. *)
ToolErrors ==
    {"UnknownTool", "PortUnavailable", "NoPortAvailable", "ProcessNotFound",
     "NoDebugPort", "TargetNotFound", "DiscoveryFailed", "SessionError"}

Pending(t) == IF t.pc = "done" THEN << >> ELSE <<t.cur>> \o t.todo

(* The loop went from the targets of before to those of after, and every   *)
(* target it left behind had failed its lookup in record p.                *)
LoopWentOn(before, after, p) ==
    \E n \in 0..Len(before) :
        /\ after = SubSeq(before, n + 1, Len(before))
        /\ \A m \in 1..n : p.cdpClient = 0 /\ before[m] \notin Range(p.targets)

(* C23: a reload without targetId starts on the cached targets, stays on   *)
(* the current target or goes on to the next one after every reply and     *)
(* every failure, so that it returns only when no target is left, and      *)
(* returns success.                                                        *)
C23_ReloadAllBestEffort ==
    [][/\ Len(tasks') = Len(tasks) + 1 =>
            LET u == Last(tasks')
            IN  IsReloadAll(u) /\ u.pc # "done" =>
                    LoopWentOn(procs[u.r].targets, Pending(u), procs'[u.r])
       /\ \A i \in DOMAIN tasks :
            IsReloadAll(tasks[i]) /\ Runs(i) =>
                /\ \/ Pending(tasks'[i]) = Pending(tasks[i])
                   \/ LoopWentOn(tasks[i].todo, Pending(tasks'[i]), procs'[tasks[i].r])
                /\ tasks'[i].pc = "done" => tasks'[i].res = "ok"]_vars

(* C23 witness: a reload without targetId on a record with two cached      *)
(* targets has returned success with no message sent: both attempts failed. *)
C23_AllReloadsFailed ==
    /\ Len(tasks) = 1
    /\ tasks[1].kind = "electron_reload" /\ tasks[1].pc = "done" /\ tasks[1].res = "ok"
    /\ procs[1].targets = <<"t1", "t2">>
    /\ TotalSent = 0
    /\ now > 0

(* C24: a reload without targetId sends each target's Page.reload over a   *)
(* session bound to that target, here for a reload that is the only        *)
(* request ever made.                                                      *)
C24_ReloadAllSessionPerTarget ==
    \A i \in DOMAIN tasks :
        Len(tasks) = 1 /\ IsReloadAll(tasks[i]) /\ tasks[i].pc = "send" =>
            sess[tasks[i].k].target = tasks[i].cur

(* The route that has been computed for a cdp URI. *)
CdpParsed == read.uri.prefix = CDP /\ read.route # NoRoute

(* C25: a cdp URI whose process-id or target-id segment is missing or      *)
(* empty is routed to invalidCdp; every other cdp URI to a cdp route with  *)
(* these two segments as identifiers and, when segments follow them, with  *)
(* commandPath equal to those segments joined by '/'; no cdp route has an  *)
(* empty identifier.                                                       *)
C25_CdpRouteOfSegments ==
    CdpParsed =>
        LET segments == Split(read.uri.rest)
            route == read.route
        IN  /\ route.kind = "cdp" => route.processId # << >> /\ route.targetId # << >>
            /\ IF Len(segments) < 2 \/ segments[1] = << >> \/ segments[2] = << >>
               THEN route.kind = "invalidCdp"
               ELSE /\ route.kind = "cdp"
                    /\ route.processId = segments[1]
                    /\ route.targetId = segments[2]
                    /\ Len(segments) > 2 =>
                          route.commandPath = Join(SubSeq(segments, 3, Len(segments)))

(* C26: the read of a cdp URI naming the running process hands a command   *)
(* to executeCDPCommand exactly when two non-empty segments follow the two *)
(* identifiers; with any other segments after them (one, three or more, an *)
(* empty one) it fails with the format error and sends nothing.            *)
C26_CommandIffTwoSegments ==
    read.uri.prefix = CDP /\ read.act # "none" =>
        LET segments == Split(read.uri.rest)
            after == SubSeq(segments, 3, Len(segments))
            two == Len(after) = 2 /\ after[1] # << >> /\ after[2] # << >>
        IN  Len(segments) >= 2 /\ segments[1] = <<"a">> /\ segments[2] # << >> =>
                /\ read.act = "command" <=> two
                /\ after # << >> /\ ~two =>
                      read.act = "InvalidCommandFormat" /\ tasks = << >>

(* The metric of the reply that a metric of the debug info is taken from. *)
SourceMetric(f) ==
    IF f \in {"mainCpuUsage", "rendererCpuUsage"} THEN "CPUUsage" ELSE "JSHeapUsedSize"

(* C27: in the debug info that a process read answers with, a metric is    *)
(* the unavailable sentinel whenever the record had no session, the        *)
(* Performance.getMetrics call failed or the reply lacked the metric, and  *)
(* a number only when the reply held the metric.                           *)
C27_UnavailableNeverFabricated ==
    read.act = "info" =>
        \A f \in DOMAIN read.info :
            LET held == read.reply.asked /\ read.reply.ok
                            /\ SourceMetric(f) \in read.reply.names
            IN  /\ ~held => read.info[f] = Unavailable
                /\ read.info[f].number => held

(* The targets read runs in this step. *)
TargetsRuns ==
    /\ read.route.kind = "targets"
    /\ read.act \in {"none", "targets"}
    /\ read' # read

(* C28: the targets read goes through the registered running processes     *)
(* with a port in order and passes none over (a step of the read changes   *)
(* neither store nor status); a refresh that answers adds                  *)
(* the record's id with each of its targets to the list, one that fails    *)
(* adds nothing, and either way the read goes on and never fails.          *)
C28_TargetsReadGoesOn ==
    [][TargetsRuns =>
          LET r == read.at
          IN  /\ read'.act \in {"targets", "list"}
              /\ read'.act = "list" <=> read'.at = 0
              /\ read'.at # 0 => read'.at > r /\ Refreshable(read'.at)
              /\ \A q \in DOMAIN procs :
                    q > r /\ (read'.at = 0 \/ q < read'.at) => ~Refreshable(q)
              /\ IF r = 0
                 THEN read'.out = << >>
                 ELSE /\ read'.out \in {read.out, read.out \o Pairs(procs'[r])}
                      /\ procs'[r] # procs[r] => read'.out = read.out \o Pairs(procs'[r])]_vars

(* C28 witness: the read has returned the targets of the second process    *)
(* alone, the refresh of the first, still running and registered, having   *)
(* failed.                                                                 *)
C28_ListedDespiteFailure ==
    /\ read.act = "list"
    /\ \A r \in DOMAIN procs : Refreshable(r)
    /\ read.out = Pairs(procs[2])
    /\ procs[2].lastTargetUpdate = now /\ procs[1].lastTargetUpdate < now

(* Record r is the value of a store entry. *)
Registered(r) == Has(procs[r].id) /\ store[procs[r].id] = r

(* C29: however stop calls and the exit event of a process interleave, a   *)
(* record that was stopped or has exited is out of the store, its process  *)
(* was signalled at most once and each of its sessions closed at most      *)
(* once; a stop returns true only for a registered record not signalled    *)
(* before, whose id is absent afterwards, so that a later stop returns     *)
(* false; and the exit event of a stopped record closes and removes        *)
(* nothing more.                                                           *)
C29_StopExitIdempotent ==
    [][/\ \A r \in DOMAIN procs' :
            /\ procs'[r].kills <= 1
            /\ procs'[r].kills = 1 \/ ~procs'[r].alive => ~Registered(r)'
       /\ \A k \in DOMAIN sess' : sess'[k].closes <= 1
       /\ lastStop'.n = lastStop.n + 1 =>
            IF Has(lastStop'.id)
            THEN /\ lastStop'.ret
                 /\ procs[store[lastStop'.id]].kills = 0
                 /\ lastStop'.id \notin DOMAIN store'
            ELSE ~lastStop'.ret /\ UNCHANGED <<store, procs, sess>>
       /\ \A r \in DOMAIN procs :
            procs[r].alive /\ ~procs'[r].alive /\ procs[r].kills = 1 /\ procs[r].cdpClient = 0 =>
                UNCHANGED <<store, sess>>]_vars

(* C29 witness: a process with a session was stopped and has then exited;  *)
(* it was signalled once, its session closed once, its id is absent.       *)
C29_StoppedThenExited ==
    /\ lastStop.n = 1 /\ lastStop.ret /\ ~Has(lastStop.id)
    /\ procs[1].id = lastStop.id
    /\ procs[1].kills = 1 /\ ~procs[1].alive /\ procs[1].cdpClient = 0
    /\ \E k \in DOMAIN sess : sess[k].rec = 1 /\ sess[k].closes = 1

(* C30: every command was sent over a session opened for the target the    *)
(* command names.                                                          *)
C30_CommandOverOwnSession ==
    \A k \in DOMAIN sess :
        \A n \in 1..Len(sess[k].sent) : sess[k].sent[n].target = sess[k].target

(* C31: the exit of a process removes from the store no record of another  *)
(* process that is still running.                                          *)
C31_ExitRemovesOwnRecordOnly ==
    [][\A r \in DOMAIN procs :
          procs[r].alive /\ ~procs'[r].alive =>
              \A q \in DOMAIN procs :
                  q # r /\ Registered(q) /\ procs[q].alive /\ procs[q].status = "running" =>
                      Registered(q)']_vars

(* C32: every record that is the value of a store entry has status         *)
(* running, so no lookup, list or info finds a stopped or crashed record.  *)
C32_StoreHoldsRunningOnly ==
    \A id \in DOMAIN store : procs[store[id]].status = "running"

(* C32 witness: a record has crashed and a later record with the same id   *)
(* is registered and running: the id leads to the running one only.        *)
C32_CrashedGoneRunningListed ==
    \E r, q \in DOMAIN procs :
        /\ r # q /\ procs[r].id = procs[q].id
        /\ procs[r].status = "crashed" /\ ~Registered(r)
        /\ Registered(q) /\ procs[q].status = "running"

(* C33: no two records that are in the store at the same time have the     *)
(* same debugging port.                                                    *)
C33_StorePortsDistinct ==
    \A id1, id2 \in DOMAIN store :
        id1 # id2 => procs[store[id1]].debugPort # procs[store[id2]].debugPort

(* C34: a start call that has spawned its process is not still waiting for *)
(* a discovery reply later than one polling step after its startupTimeout  *)
(* has elapsed: by then it has returned.                                   *)
C34_ReturnsByDeadline ==
    \A s \in DOMAIN starts :
        starts[s].pc = "poll" =>
            now - starts[s].t0 <= starts[s].timeout + POLL_INTERVAL

Overflows(r) ==
    Len(procs[r].logs) = MAX_LOG_ENTRIES /\ Len(appended') = Len(appended) + 1

C37_RefreshReplacesCache ==
    [][\A r \in DOMAIN procs :
          IF read.act = "targets" /\ read.at = r /\ read'.got.n > read.got.n /\ read'.got.ok
          THEN /\ procs'[r].targets = read'.got.list
               /\ procs'[r].lastTargetUpdate = now
          ELSE CacheKept(r)]_vars

(* C37 witness: the refresh of the first record, cached at time 0, was     *)
(* answered one polling interval later with the list of one target, and    *)
(* the record holds that list and that time, while the second record, not  *)
(* refreshed yet, still holds two targets.                                 *)
C37_FirstRecordReplaced ==
    /\ read.got = [n |-> 1, ok |-> TRUE, list |-> <<"t1">>]
    /\ procs[1].targets = <<"t1">> /\ procs[1].lastTargetUpdate = now /\ now > 0
    /\ read.at = 2 /\ procs[2].targets = <<"t1", "t2">>

(* C38: connect asks for the target list before its lookup exactly when    *)
(* the record has no cached list or the list was fetched more than 5000 ms *)
(* ago. With a list at most 5000 ms old it asks for nothing: the record is *)
(* left as it is and the target is looked up in the cached list, the       *)
(* connection being opened if the list holds it and refused if not. A     *)
(* request calls connect on record r in the step in which it arrives, if   *)
(* it addresses the running record r by its id and r has a debugging port  *)
(* and no stored client.                                                   *)
C38_DiscoversExactlyWhenStale ==
    [][\A r \in DOMAIN procs :
          /\ Len(tasks') = Len(tasks) + 1
          /\ Last(tasks').kind \in ConnKinds
          /\ Has(Last(tasks').pid) /\ store[Last(tasks').pid] = r
          /\ procs[r].status = "running"
          /\ procs[r].debugPort # 0 /\ procs[r].cdpClient = 0
          =>
            LET u == Last(tasks')
                absent == procs[r].lastTargetUpdate = -1
                age == now - procs[r].lastTargetUpdate
            IN  /\ u.pc = "discover" <=> (absent \/ age > 5000)
                /\ ~absent /\ age <= 5000 =>
                      /\ procs'[r] = procs[r]
                      /\ IF u.tid \in Range(procs[r].targets)
                         THEN u.pc = "open"
                         ELSE u.pc = "done" /\ u.res = "TargetNotFound"]_vars

(* C38 witness: a connect that arrived at time 0, with the list just       *)
(* fetched, waits for its connection to open, and another that arrived     *)
(* 5001 ms after the fetch waits for the answer to its discovery request.  *)
C38_FreshOpensStaleDiscovers ==
    /\ Len(tasks) = 2 /\ Len(procs) = 1
    /\ procs[1].lastTargetUpdate = 0 /\ now = STALE_MS + 1
    /\ tasks[1].pc = "open" /\ tasks[2].pc = "discover"

(* C39: findDuplicates is monotone in its threshold: of two runs on the    *)
(* same items, the one with the lower threshold finds at least as many     *)
(* duplicate groups as the other.                                          *)
C39_GroupCountMonotone ==
    \A a \in DOMAIN cleanup.runs, b \in DOMAIN cleanup.runs :
        cleanup.runs[a].threshold <= cleanup.runs[b].threshold
            => Len(cleanup.runs[a].duplicates) >= Len(cleanup.runs[b].duplicates)

(* C39 as the code has it: of two runs on the same items, if the one with  *)
(* the higher threshold finds a duplicate group, so does the one with the  *)
(* lower threshold; for at most three items the lower threshold finds at   *)
(* least as many groups as the higher.                                     *)
C39_LowerThresholdFindsSome ==
    \A a \in DOMAIN cleanup.runs, b \in DOMAIN cleanup.runs :
        cleanup.runs[a].threshold <= cleanup.runs[b].threshold =>
            /\ cleanup.runs[b].duplicates # << >> => cleanup.runs[a].duplicates # << >>
            /\ Len(cleanup.items) <= 3
                  => Len(cleanup.runs[a].duplicates) >= Len(cleanup.runs[b].duplicates)

(* C39 witness: four items of four ids of which the threshold 1.0 found    *)
(* two groups and the threshold 0.5 one group that holds them all.         *)
C39_GroupsMerged ==
    /\ Len(cleanup.items) = 4 /\ Len(cleanup.runs) = 2
    /\ cleanup.runs[1].threshold = 100 /\ Len(cleanup.runs[1].duplicates) = 2
    /\ cleanup.runs[2].threshold = 50 /\ Len(cleanup.runs[2].duplicates) = 1
    /\ Len(cleanup.runs[2].duplicates[1].group) = 4
    /\ \A h \in 1..4, k \in 1..4 : h # k => cleanup.items[h].id # cleanup.items[k].id

====
